---- MODULE Spec2Model ----
(***************************************************************************)
(* Case Data Tracker (src/app.py): the extraction-and-reconciliation       *)
(* pipeline of the Streamlit script, as a state machine.                    *)
(*                                                                         *)
(* Conventions.  A Python value that may be None / NaN is a sequence of    *)
(* length at most one: <<>> is None (pandas: NaN), <<v>> is the value v.   *)
(* A Python str is a sequence of one-character strings.  A float is        *)
(* modelled by a whole number (the sample amounts have no cents).          *)
(***************************************************************************)
EXTENDS Integers, Sequences, FiniteSets, TLC

VARIABLES
    pc,              \* position of the script / of the function under check
    error,           \* the exception that ended the run ("none" when none)
    rules_json,      \* sidebar text area (line 151)
    rules,           \* the loaded rules (lines 153-157)
    min_amount,      \* sidebar number input (line 149)
    dedupe_on_case,  \* sidebar checkbox (line 150)
    use_ocr,         \* checkbox (line 183)
    OCR_AVAILABLE,   \* outcome of the optional OCR imports (lines 22-28)
    pdfplumber,      \* outcome of the optional import (lines 16-19)
    tab_files,       \* uploaded tables not yet read (line 163)
    tab_rows,        \* rows of the tables read so far (lines 164, 177)
    pdf_files,       \* uploaded PDFs not yet parsed (line 184)
    parsed_records,  \* records of the pages parsed so far (line 186)
    b,               \* bytes of the document handed to pdf_to_texts (line 188)
    pages,           \* result of pdf_to_texts (line 189)
    page_text,       \* text handed to extract_with_rules (line 190)
    rec,             \* result of extract_with_rules (line 191)
    merged,          \* the table of the Merge & Clean stage (lines 203-223)
    rerun            \* the table of a second run of the stage on `merged`

vars == <<pc, error, rules_json, rules, min_amount, dedupe_on_case, use_ocr,
          OCR_AVAILABLE, pdfplumber, tab_files, tab_rows, pdf_files,
          parsed_records, b, pages, page_text, rec, merged, rerun>>

settings == <<rules_json, min_amount, dedupe_on_case, use_ocr, OCR_AVAILABLE, pdfplumber>>
locals == <<b, pages, page_text, rec>>

----------------------------------------------------------------------------
(* Bounds of the model. *)
MaxTab == 2          \* tabular rows of a run of the Merge & Clean stage
MaxPdf == 1          \* PDF records of a run of the Merge & Clean stage
MaxMinSteps == 2     \* largest minimum amount entered in the sidebar, in steps
MaxPages == 2        \* pages of a document
MaxLines == 2        \* lines of a page text
MaxFiles == 2        \* uploaded PDFs of a pipeline run

----------------------------------------------------------------------------
(* Python values. *)
None == <<>>
Some(v) == <<v>>
StrV(s) == [t |-> "str", s |-> s]
NumV(n) == [t |-> "num", n |-> n]

Whitespace == {" ", "\n"}
Digits == {"0", "1", "2", "3", "4", "5", "6", "7", "8", "9"}
DigitVal(c) == CASE c = "0" -> 0 [] c = "1" -> 1 [] c = "2" -> 2 [] c = "3" -> 3
                 [] c = "4" -> 4 [] c = "5" -> 5 [] c = "6" -> 6 [] c = "7" -> 7
                 [] c = "8" -> 8 [] c = "9" -> 9
DigitChar(d) == CASE d = 0 -> "0" [] d = 1 -> "1" [] d = 2 -> "2" [] d = 3 -> "3"
                  [] d = 4 -> "4" [] d = 5 -> "5" [] d = 6 -> "6" [] d = 7 -> "7"
                  [] d = 8 -> "8" [] d = 9 -> "9"

RECURSIVE lstrip(_)
lstrip(s) == IF s # <<>> /\ Head(s) \in Whitespace THEN lstrip(Tail(s)) ELSE s

RECURSIVE rstrip(_)
rstrip(s) == IF s # <<>> /\ s[Len(s)] \in Whitespace
             THEN rstrip(SubSeq(s, 1, Len(s) - 1)) ELSE s

\* str.strip()
strip(s) == rstrip(lstrip(s))

\* str.replace(c, "")
replace(s, c) == SelectSeq(s, LAMBDA x : x # c)

RECURSIVE DecimalDigits(_)
DecimalDigits(n) == IF n < 10 THEN <<DigitChar(n)>>
                    ELSE DecimalDigits(n \div 10) \o <<DigitChar(n % 10)>>

RECURSIVE DecimalValue(_)
DecimalValue(d) == IF d = <<>> THEN 0
                   ELSE DecimalValue(SubSeq(d, 1, Len(d) - 1)) * 10 + DigitVal(d[Len(d)])

AllIn(s, S) == \A i \in 1..Len(s) : s[i] \in S

\* str(x): a str is itself, a float prints as its digits and ".0"
str(x) == IF x.t = "str" THEN x.s
          ELSE (IF x.n < 0 THEN <<"-">> ELSE <<>>)
               \o DecimalDigits(IF x.n < 0 THEN -x.n ELSE x.n) \o <<".", "0">>

\* float(s) inside the try of parse_amount_to_float: None stands for the
\* ValueError. float() ignores surrounding whitespace, takes an optional
\* sign, digits and an optional fraction (only zero fractions occur here).
float(s) ==
    LET t == strip(s)
        neg == t # <<>> /\ Head(t) = "-"
        u == IF neg THEN Tail(t) ELSE t
        dots == {i \in 1..Len(u) : u[i] = "."}
        dot == IF dots = {} THEN Len(u) + 1 ELSE CHOOSE i \in dots : \A j \in dots : i <= j
        ip == SubSeq(u, 1, dot - 1)
        fp == SubSeq(u, dot + 1, Len(u))
    IN  IF ip # <<>> /\ AllIn(ip, Digits) /\ AllIn(fp, {"0"})
        THEN Some(NumV(IF neg THEN -DecimalValue(ip) ELSE DecimalValue(ip)))
        ELSE None

\* pd.isna
isna(x) == x = None

parse_amount_to_float(x) ==
    IF isna(x) THEN None
    ELSE float(replace(replace(strip(str(x[1])), "$"), ","))

\* Series.fillna(0) on one value
fillna0(x) == IF isna(x) THEN 0 ELSE x[1].n

----------------------------------------------------------------------------
(* Tables.  A row of a DataFrame is a record of its canonical columns; a   *)
(* column a source does not have is None in every row of that source, as   *)
(* pd.concat and lines 208-214 leave it.  `index` is the DataFrame index.   *)

Row(case, raw, amt, src, pg) ==
    [case_number |-> case, name |-> None, amount_raw |-> raw, amount |-> amt,
     address |-> None, source |-> src, page |-> pg]

\* normalize_columns on one row of a table whose headers are already
\* canonical aliases: the amount is derived from amount_raw
normalize_columns(r) ==
    [r EXCEPT !.amount = parse_amount_to_float(r.amount_raw)]

WithIndex(r, i) ==
    [index |-> i, case_number |-> r.case_number, name |-> r.name,
     amount_raw |-> r.amount_raw, amount |-> r.amount, address |-> r.address,
     source |-> r.source, page |-> r.page]

WithAmountNum(r) ==
    [index |-> r.index, case_number |-> r.case_number, name |-> r.name,
     amount_raw |-> r.amount_raw, amount |-> r.amount, address |-> r.address,
     source |-> r.source, page |-> r.page,
     amount_num |-> parse_amount_to_float(r.amount)]

\* pd.concat([tab_df, pdf_df], ignore_index=True)
concat(tab, pdf) ==
    [i \in 1..(Len(tab) + Len(pdf)) |-> WithIndex((tab \o pdf)[i], i - 1)]

\* the comparison made strict
keeps_strict(r, min) == fillna0(r.amount_num) > min

\* merged[merged["amount_num"].fillna(0) >= float(min_amount)]
keeps(r, min) == fillna0(r.amount_num) >= min

filter_min_amount(m, min) ==
    SelectSeq([i \in 1..Len(m) |-> WithAmountNum(m[i])], LAMBDA r : keeps(r, min))

RemoveAt(s, i) == SubSeq(s, 1, i - 1) \o SubSeq(s, i + 1, Len(s))

\* the sort made ascending
sort_first_ascending(s) ==
    LET nums == {i \in 1..Len(s) : ~isna(s[i].amount_num)}
    IN  IF nums # {}
        THEN {i \in nums : \A j \in nums : s[i].amount_num[1].n <= s[j].amount_num[1].n}
        ELSE {1}

\* The positions sort_values(by=["amount_num"], ascending=False) may put first.
\* The default kind is "quicksort", which is not stable: among the rows of the
\* highest amount any one may come first.  NaN amounts go last, in their
\* original order (na_position="last").
sort_first(s) ==
    LET nums == {i \in 1..Len(s) : ~isna(s[i].amount_num)}
    IN  IF nums # {}
        THEN {i \in nums : \A j \in nums : s[j].amount_num[1].n <= s[i].amount_num[1].n}
        ELSE {1}

\* every order sort_values may return
RECURSIVE sort_values(_)
sort_values(s) ==
    IF s = <<>> THEN {<<>>}
    ELSE UNION {{<<s[i]>> \o t : t \in sort_values(RemoveAt(s, i))} : i \in sort_first(s)}

\* two rows are duplicates on subset=["case_number"]; NaN equals NaN here
same_key(r1, r2) == r1.case_number = r2.case_number

\* drop_duplicates(subset=["case_number"], keep="first")
RECURSIVE drop_duplicates(_)
drop_duplicates(s) ==
    IF s = <<>> THEN <<>>
    ELSE LET init == SubSeq(s, 1, Len(s) - 1)
             last == s[Len(s)]
         IN  IF \E j \in 1..Len(init) : same_key(init[j], last)
             THEN drop_duplicates(init)
             ELSE Append(drop_duplicates(init), last)

\* line 222-223: every table the dedupe step may leave
dedupe(m, on) ==
    IF on THEN {drop_duplicates(s) : s \in sort_values(m)} ELSE {m}

\* lines 203-223 as a whole: every table the stage may produce
merge_and_clean(tab, pdf, min, on) ==
    dedupe(filter_min_amount(concat(tab, pdf), min), on)

----------------------------------------------------------------------------
(* Rules and extraction.  A page text is a sequence of lines; the sample   *)
(* lines and what each default pattern captures in each of them are        *)
(* Python's re.search on these very strings.                               *)

LineCase == "Case No: AB-12"
LineBare == "77-123"
LineOwner == "Owner: Al B "
LineAmount == "Amount: $5,000"
LineJunk == "##"
Lines == {LineCase, LineBare, LineOwner, LineAmount, LineJunk}

\* the patterns of DEFAULT_RULES, by field and place in the field's list
Patterns == {"case1", "case2", "name1", "name2", "amount1", "amount2", "address1"}

\* m.group(1) of a match of the pattern within one line; None: no match there
group1(pat, line) ==
    CASE pat = "case1" /\ line = LineCase -> Some(<<"A", "B", "-", "1", "2">>)
      [] pat = "case2" /\ line = LineBare -> Some(<<"7", "7", "-", "1", "2", "3">>)
      [] pat = "name1" /\ line = LineOwner -> Some(<<"A", "l", " ", "B", " ">>)
      [] pat = "name2" /\ line = LineCase -> Some(<<"C", "a", "s", "e", " ", "N", "o">>)
      [] pat = "name2" /\ line = LineOwner -> Some(<<"O", "w", "n", "e", "r">>)
      [] pat = "name2" /\ line = LineAmount -> Some(<<"A", "m", "o", "u", "n", "t">>)
      [] pat = "amount1" /\ line = LineCase -> Some(<<"1", "2">>)
      [] pat = "amount1" /\ line = LineBare -> Some(<<"7", "7">>)
      [] pat = "amount1" /\ line = LineAmount -> Some(<<"5", ",", "0", "0", "0">>)
      [] pat = "amount2" /\ line = LineAmount -> Some(<<"5", ",", "0", "0", "0">>)
      [] OTHER -> None

\* re.search(pat, text, re.MULTILINE): the leftmost match; None when none
re_search(pat, text) ==
    LET hits == {i \in 1..Len(text) : group1(pat, text[i]) # None}
    IN  IF hits = {} THEN None
        ELSE group1(pat, text[CHOOSE i \in hits : \A j \in hits : i <= j])

\* a JSON value that is a list of pattern strings, and one that is a number
PatternList(ps) == [iterable |-> TRUE, pats |-> ps]
NotAList == [iterable |-> FALSE, pats |-> <<>>]

Dict(items) == [kind |-> "dict", items |-> items]
List == [kind |-> "list", items |-> <<>>]

DEFAULT_RULES ==
    Dict([case_number |-> PatternList(<<"case1", "case2">>),
          name |-> PatternList(<<"name1", "name2">>),
          amount |-> PatternList(<<"amount1", "amount2">>),
          address |-> PatternList(<<"address1">>)])

\* the inner loop of extract_with_rules (lines 79-83) for one key: the index
\* of the pattern whose match is taken, 0 when no pattern matches
taken(patterns, text) ==
    LET hits == {j \in 1..Len(patterns) : re_search(patterns[j], text) # None}
    IN  IF hits = {} THEN 0 ELSE CHOOSE j \in hits : \A k \in hits : j <= k

\* out[key] = m.group(1).strip()
captured(patterns, text) ==
    strip(re_search(patterns[taken(patterns, text)], text)[1])

\* rules.items() of a list, or iterating a number, raises
extract_raises(rs) ==
    \/ rs.kind # "dict"
    \/ \E k \in DOMAIN rs.items : ~rs.items[k].iterable

OutKeys == {"case_number", "name", "amount_raw", "address"}

\* the key line 84 assigns
derived_key == "amount"

\* extract_with_rules (lines 76-85) when it does not raise: the returned dict
extract_with_rules(text, rs) ==
    LET set == {k \in DOMAIN rs.items : taken(rs.items[k].pats, text) # 0}
        loop == [k \in OutKeys \cup set |->
                    IF k \in set THEN Some(captured(rs.items[k].pats, text)) ELSE None]
        raw == IF loop["amount_raw"] = None THEN None
               ELSE Some(StrV(loop["amount_raw"][1]))
    IN  [k \in DOMAIN loop \cup {derived_key} |->
            IF k = derived_key THEN parse_amount_to_float(raw) ELSE loop[k]]

\* json.loads (line 154): None stands for the exception
json_loads(j) == IF j.wellformed THEN Some(j.value) ELSE None

\* lines 153-157
load_rules(j) == IF json_loads(j) = None THEN DEFAULT_RULES ELSE json_loads(j)[1]

----------------------------------------------------------------------------
(* Documents.  The bytes of an upload are described by what the backends   *)
(* make of them: whether pdfplumber opens them, whether pdf2image          *)
(* rasterizes them, per page what extract_text and image_to_string give    *)
(* (or that they raise), and what the bytes decode to.                     *)

Raises == [raises |-> TRUE, text |-> None]
Gives(t) == [raises |-> FALSE, text |-> t]

\* `x or ""` (lines 102, 110); the empty page text has no lines
or_empty(x) == IF x = None THEN <<>> ELSE x[1]

\* lines 94-103: the OCR path; it has no try
ocr_path(doc) ==
    IF ~doc.rasterizes \/ \E i \in 1..Len(doc.pages) : doc.pages[i].ocr.raises
    THEN [raised |-> TRUE, texts |-> <<>>]
    ELSE [raised |-> FALSE,
          texts |-> [i \in 1..Len(doc.pages) |-> or_empty(doc.pages[i].ocr.text)]]

\* lines 107-113: what `texts` holds when the try block is left, and whether
\* it was left by the return
layer_path(doc) ==
    LET bad == {i \in 1..Len(doc.pages) : doc.pages[i].layer.raises}
        n == IF ~doc.opens THEN 0
             ELSE IF bad = {} THEN Len(doc.pages)
             ELSE (CHOOSE i \in bad : \A j \in bad : i <= j) - 1
    IN  [returned |-> doc.opens /\ bad = {},
         texts |-> [i \in 1..n |-> or_empty(doc.pages[i].layer.text)]]

\* lines 116-119: bytes.decode("utf-8", errors="ignore") does not raise
decode(doc) == doc.raw

\* pdf_to_texts (lines 87-120)
pdf_to_texts(doc, ocr, ocr_available, plumber) ==
    IF ocr /\ ocr_available THEN ocr_path(doc)
    ELSE IF plumber /\ layer_path(doc).returned
         THEN [raised |-> FALSE, texts |-> layer_path(doc).texts]
         ELSE [raised |-> FALSE,
               texts |-> Append(IF plumber THEN layer_path(doc).texts ELSE <<>>,
                                decode(doc))]

----------------------------------------------------------------------------
(* Inputs. *)

SeqsUpTo(S, n) == UNION {[1..k -> S] : k \in 0..n}

\* st.sidebar.number_input(..., min_value=0, value=0, step=1000)
Step == 1000
MinAmounts == {k * Step : k \in 0..MaxMinSteps}

CaseNumbers == {None, Some(<<"A">>), Some(<<"B">>)}

\* cells of an amount column: empty, not a number, "$1,000", "2000"
AmountRaws ==
    {None, Some(StrV(<<"x">>)), Some(StrV(<<"$", "1", ",", "0", "0", "0">>)),
     Some(StrV(<<"2", "0", "0", "0">>))}

\* rows of an uploaded table after normalize_columns
TabSamples ==
    {normalize_columns(Row(c, a, None, "t.csv", None)) : c \in CaseNumbers, a \in AmountRaws}

\* records of PDF pages as the parse loop leaves them
PdfSamples ==
    {Row(c, a, parse_amount_to_float(a), "d.pdf", Some(1)) :
        c \in {None, Some(<<"A">>)}, a \in {None, Some(StrV(<<"2", "0", "0", "0">>))}}

Texts == SeqsUpTo(Lines, MaxLines)

\* rules a user may enter: the default lists reversed; the amount patterns
\* under the key amount_raw; a JSON array; a mapping to a number
ReversedRules ==
    Dict([case_number |-> PatternList(<<"case2", "case1">>),
          name |-> PatternList(<<"name2", "name1">>),
          amount |-> PatternList(<<"amount2", "amount1">>),
          address |-> PatternList(<<"address1">>)])
RawKeyedRules ==
    Dict([case_number |-> PatternList(<<"case1">>),
          amount_raw |-> PatternList(<<"amount2", "amount1">>)])
NumberValuedRules == Dict([name |-> NotAList])
RuleValues == {DEFAULT_RULES, ReversedRules, RawKeyedRules, List, NumberValuedRules}

JsonSamples ==
    {[wellformed |-> FALSE, value |-> List]}
    \cup {[wellformed |-> TRUE, value |-> v] : v \in RuleValues}

PageKinds ==
    [layer : {Raises, Gives(None), Gives(Some(<<LineCase>>))},
     ocr : {Raises, Gives(None), Gives(Some(<<LineBare>>))}]

Docs ==
    [name : {"d.pdf"}, opens : BOOLEAN, rasterizes : BOOLEAN,
     raw : {<<>>, <<LineJunk>>}, pages : SeqsUpTo(PageKinds, MaxPages)]

GoodPage == [layer |-> Gives(Some(<<LineCase, LineAmount>>)), ocr |-> Gives(Some(<<LineBare>>))]
HalfPage == [layer |-> Raises, ocr |-> Gives(None)]
BlurPage == [layer |-> Gives(None), ocr |-> Raises]
Doc(nm, op, ra, ps) == [name |-> nm, opens |-> op, rasterizes |-> ra, raw |-> <<LineJunk>>, pages |-> ps]

\* uploads of a pipeline run
PipelineDocs ==
    {Doc("good.pdf", TRUE, TRUE, <<GoodPage>>),
     Doc("noraster.pdf", TRUE, FALSE, <<GoodPage>>),
     Doc("half.pdf", TRUE, TRUE, <<GoodPage, HalfPage>>),
     Doc("blur.pdf", TRUE, TRUE, <<BlurPage>>)}

TabFile(nm, ok, rows) == [name |-> nm, readable |-> ok, rows |-> rows]
PipelineTables ==
    {TabFile("t.csv", TRUE,
             <<Row(Some(<<"A">>), Some(StrV(<<"$", "1", ",", "0", "0", "0">>)), None, "t.csv", None)>>),
     TabFile("u.xlsx", FALSE, <<>>)}

NoDoc == Doc("", FALSE, FALSE, <<>>)
NotLoaded == None

----------------------------------------------------------------------------
(* The script, top to bottom. *)

Init ==
    /\ pc = "rules"
    /\ error = "none"
    /\ rules_json \in JsonSamples
    /\ rules = NotLoaded
    /\ min_amount \in MinAmounts
    /\ dedupe_on_case \in BOOLEAN
    /\ use_ocr \in BOOLEAN
    /\ OCR_AVAILABLE \in BOOLEAN
    /\ pdfplumber \in BOOLEAN
    /\ tab_files \in SeqsUpTo(PipelineTables, 1)
    /\ tab_rows = <<>>
    /\ pdf_files \in SeqsUpTo(PipelineDocs, MaxFiles)
    /\ parsed_records = <<>>
    /\ b = NoDoc
    /\ pages = <<>>
    /\ page_text = <<>>
    /\ rec = <<>>
    /\ merged = <<>>
    /\ rerun = <<>>

\* lines 153-157
LoadRules ==
    /\ pc = "rules"
    /\ rules' = load_rules(rules_json)
    /\ pc' = "tabular"
    /\ UNCHANGED <<error, settings, tab_files, tab_rows, pdf_files, parsed_records,
                   locals, merged, rerun>>

\* lines 165-175, one file: an unreadable file is skipped with a warning
ReadTabular ==
    /\ pc = "tabular"
    /\ tab_files # <<>>
    /\ \/ /\ Head(tab_files).readable
          /\ tab_rows' = tab_rows \o
                [i \in 1..Len(Head(tab_files).rows) |->
                    normalize_columns(Head(tab_files).rows[i])]
       \/ /\ ~Head(tab_files).readable
          /\ tab_rows' = tab_rows
    /\ tab_files' = Tail(tab_files)
    /\ UNCHANGED <<pc, error, settings, rules, pdf_files, parsed_records, locals,
                   merged, rerun>>

\* line 177
EndTabular ==
    /\ pc = "tabular"
    /\ tab_files = <<>>
    /\ pc' = "pdfs"
    /\ UNCHANGED <<error, settings, rules, tab_files, tab_rows, pdf_files,
                   parsed_records, locals, merged, rerun>>

\* lines 192-195: the record of page i of the file
PdfRecord(out, i, nm) ==
    [case_number |-> out["case_number"], name |-> out["name"],
     amount_raw |-> IF out["amount_raw"] = None THEN None
                    ELSE Some(StrV(out["amount_raw"][1])),
     amount |-> out["amount"], address |-> out["address"],
     source |-> nm, page |-> Some(i)]

\* lines 187-195, one file: nothing catches what pdf_to_texts or
\* extract_with_rules raises
ParsePdf ==
    /\ pc = "pdfs"
    /\ pdf_files # <<>>
    /\ b' = Head(pdf_files)
    /\ LET r == pdf_to_texts(Head(pdf_files), use_ocr, OCR_AVAILABLE, pdfplumber)
       IN  \/ /\ r.raised
              /\ pc' = "aborted"
              /\ error' = "pdf_backend"
              /\ UNCHANGED <<pages, page_text, rec, parsed_records, pdf_files>>
           \/ /\ ~r.raised
              /\ r.texts # <<>>
              /\ extract_raises(rules)
              /\ pc' = "aborted"
              /\ error' = "rules"
              /\ pages' = r.texts
              /\ page_text' = r.texts[1]
              /\ UNCHANGED <<rec, parsed_records, pdf_files>>
           \/ /\ ~r.raised
              /\ r.texts # <<>>
              /\ ~extract_raises(rules)
              /\ pages' = r.texts
              /\ page_text' = r.texts[Len(r.texts)]
              /\ rec' = extract_with_rules(r.texts[Len(r.texts)], rules)
              /\ parsed_records' = parsed_records \o
                    [i \in 1..Len(r.texts) |->
                        PdfRecord(extract_with_rules(r.texts[i], rules), i,
                                  Head(pdf_files).name)]
              /\ pdf_files' = Tail(pdf_files)
              /\ UNCHANGED <<pc, error>>
           \/ /\ ~r.raised
              /\ r.texts = <<>>
              /\ pages' = r.texts
              /\ pdf_files' = Tail(pdf_files)
              /\ UNCHANGED <<pc, error, page_text, rec, parsed_records>>
    /\ UNCHANGED <<settings, rules, tab_files, tab_rows, merged, rerun>>

\* line 197
EndPdfs ==
    /\ pc = "pdfs"
    /\ pdf_files = <<>>
    /\ pc' = "merge"
    /\ UNCHANGED <<error, settings, rules, tab_files, tab_rows, pdf_files,
                   parsed_records, locals, merged, rerun>>

\* lines 203-214
Concat ==
    /\ pc = "merge"
    /\ merged' = concat(tab_rows, parsed_records)
    /\ pc' = "filter"
    /\ UNCHANGED <<error, settings, rules, tab_files, tab_rows, pdf_files,
                   parsed_records, locals, rerun>>

\* lines 217-219
Filter ==
    /\ pc = "filter"
    /\ merged' = filter_min_amount(merged, min_amount)
    /\ pc' = "dedupe"
    /\ UNCHANGED <<error, settings, rules, tab_files, tab_rows, pdf_files,
                   parsed_records, locals, rerun>>

\* lines 222-223
Dedupe ==
    /\ pc = "dedupe"
    /\ merged' \in dedupe(merged, dedupe_on_case)
    /\ pc' = "done"
    /\ UNCHANGED <<error, settings, rules, tab_files, tab_rows, pdf_files,
                   parsed_records, locals, rerun>>

Next ==
    \/ LoadRules
    \/ ReadTabular
    \/ EndTabular
    \/ ParsePdf
    \/ EndPdfs
    \/ Concat
    \/ Filter
    \/ Dedupe

Spec == Init /\ [][Next]_vars

----------------------------------------------------------------------------
(* The Merge & Clean stage on its own, over every small input, followed by *)
(* a second run of the stage on the table the first run retained.          *)

InitReconcile ==
    /\ pc = "merge"
    /\ error = "none"
    /\ rules_json = [wellformed |-> TRUE, value |-> DEFAULT_RULES]
    /\ rules = DEFAULT_RULES
    /\ min_amount \in MinAmounts
    /\ dedupe_on_case \in BOOLEAN
    /\ use_ocr = FALSE
    /\ OCR_AVAILABLE = FALSE
    /\ pdfplumber = TRUE
    /\ tab_files = <<>>
    /\ tab_rows \in SeqsUpTo(TabSamples, MaxTab)
    /\ pdf_files = <<>>
    /\ parsed_records \in SeqsUpTo(PdfSamples, MaxPdf)
    /\ b = NoDoc
    /\ pages = <<>>
    /\ page_text = <<>>
    /\ rec = <<>>
    /\ merged = <<>>
    /\ rerun = <<>>

\* the stage again, its input the retained table and no PDF records
Rerun ==
    /\ pc = "done"
    /\ rerun' \in merge_and_clean(merged, <<>>, min_amount, dedupe_on_case)
    /\ pc' = "rerun"
    /\ UNCHANGED <<error, settings, rules, tab_files, tab_rows, pdf_files,
                   parsed_records, locals, merged>>

NextReconcile ==
    \/ Concat
    \/ Filter
    \/ Dedupe
    \/ Rerun

SpecReconcile == InitReconcile /\ [][NextReconcile]_vars

----------------------------------------------------------------------------
(* extract_with_rules on its own, over every small text and rule set. *)

InitExtract ==
    /\ pc = "extract_call"
    /\ error = "none"
    /\ rules_json = [wellformed |-> TRUE, value |-> DEFAULT_RULES]
    /\ rules \in RuleValues
    /\ min_amount = 0
    /\ dedupe_on_case = TRUE
    /\ use_ocr = FALSE
    /\ OCR_AVAILABLE = FALSE
    /\ pdfplumber = TRUE
    /\ tab_files = <<>>
    /\ tab_rows = <<>>
    /\ pdf_files = <<>>
    /\ parsed_records = <<>>
    /\ b = NoDoc
    /\ pages = <<>>
    /\ page_text \in Texts
    /\ rec = <<>>
    /\ merged = <<>>
    /\ rerun = <<>>

\* line 191
Extract ==
    /\ pc = "extract_call"
    /\ \/ /\ extract_raises(rules)
          /\ pc' = "aborted"
          /\ error' = "rules"
          /\ rec' = rec
       \/ /\ ~extract_raises(rules)
          /\ rec' = extract_with_rules(page_text, rules)
          /\ pc' = "extract_ret"
          /\ error' = error
    /\ UNCHANGED <<settings, rules, tab_files, tab_rows, pdf_files, parsed_records,
                   b, pages, page_text, merged, rerun>>

NextExtract == Extract

SpecExtract == InitExtract /\ [][NextExtract]_vars

----------------------------------------------------------------------------
(* pdf_to_texts on its own, over every small document and capability. *)

InitPages ==
    /\ pc = "pages_call"
    /\ error = "none"
    /\ rules_json = [wellformed |-> TRUE, value |-> DEFAULT_RULES]
    /\ rules = DEFAULT_RULES
    /\ min_amount = 0
    /\ dedupe_on_case = TRUE
    /\ use_ocr \in BOOLEAN
    /\ OCR_AVAILABLE \in BOOLEAN
    /\ pdfplumber \in BOOLEAN
    /\ tab_files = <<>>
    /\ tab_rows = <<>>
    /\ pdf_files = <<>>
    /\ parsed_records = <<>>
    /\ b \in Docs
    /\ pages = <<>>
    /\ page_text = <<>>
    /\ rec = <<>>
    /\ merged = <<>>
    /\ rerun = <<>>

\* line 189
GetPages ==
    /\ pc = "pages_call"
    /\ LET r == pdf_to_texts(b, use_ocr, OCR_AVAILABLE, pdfplumber)
       IN  \/ /\ r.raised
              /\ pc' = "aborted"
              /\ error' = "pdf_backend"
              /\ pages' = pages
           \/ /\ ~r.raised
              /\ pages' = r.texts
              /\ pc' = "pages_ret"
              /\ error' = error
    /\ UNCHANGED <<settings, rules, tab_files, tab_rows, pdf_files, parsed_records,
                   b, page_text, rec, merged, rerun>>

NextPages == GetPages

SpecPages == InitPages /\ [][NextPages]_vars

----------------------------------------------------------------------------
(* Properties of the Merge & Clean stage (SpecReconcile).  They are stated *)
(* on the input of the stage: position i of the concatenated sequence,     *)
(* tabular records first, is the record whose DataFrame index is i - 1.    *)

Input == tab_rows \o parsed_records
Positions == 1..Len(Input)
Finished == pc \in {"done", "rerun"}

\* the numeric amount of the record, an absent one counted as 0
AmountOrZero(i) == IF Input[i].amount = None THEN 0 ELSE Input[i].amount[1].n
Passes(i) == AmountOrZero(i) >= min_amount
Retained(i) == \E k \in 1..Len(merged) : merged[k].index = i - 1
Group(c) == {i \in Positions : Passes(i) /\ Input[i].case_number = c}
PassingCases == {Input[i].case_number : i \in {j \in Positions : Passes(j)}} \ {None}
Numeric(i) == Input[i].amount # None
\* the records of the group whose numeric amount is the highest of the group
Top(c) == {i \in Group(c) : Numeric(i) /\
              \A j \in Group(c) : Numeric(j) => AmountOrZero(j) <= AmountOrZero(i)}

\* C1: with dedupe_on_case enabled, every record with an absent case_number
\* that passes the min_amount filter is in the retained table.
C1_AbsentCaseNeverDeduplicated ==
    (Finished /\ dedupe_on_case) =>
        \A i \in Positions :
            (Passes(i) /\ Input[i].case_number = None) => Retained(i)

\* C2: with dedupe_on_case enabled, for every non-absent case_number among the
\* records passing the filter exactly one record of it is retained, one whose
\* numeric amount is the highest of its group, and no two retained records
\* share a non-absent case_number.
C2_OneHighestPerCase ==
    (Finished /\ dedupe_on_case) =>
        /\ \A c \in PassingCases :
              /\ Cardinality({i \in Group(c) : Retained(i)}) = 1
              /\ \A i \in Group(c) : Retained(i) => (Top(c) # {} => i \in Top(c))
              /\ Cardinality({k \in 1..Len(merged) : merged[k].case_number = c}) = 1
        /\ \A k \in 1..Len(merged) :
              merged[k].case_number # None => merged[k].case_number \in PassingCases

\* a group of two records with different amounts has been deduplicated
C2_Witness ==
    /\ pc = "done"
    /\ dedupe_on_case
    /\ \E c \in PassingCases : \E i, j \in Group(c) :
          /\ Numeric(i) /\ Numeric(j)
          /\ AmountOrZero(i) < AmountOrZero(j)
          /\ i < j
          /\ Retained(j) /\ ~Retained(i)

\* C3: with dedupe_on_case enabled, when several records of a case_number
\* group tie on the highest numeric amount, the one retained is the earliest
\* of them in the concatenated sequence.
C3_TieKeepsEarliest ==
    (Finished /\ dedupe_on_case) =>
        \A c \in PassingCases : \A i \in Top(c) :
            Retained(i) => \A j \in Top(c) : i <= j

\* the cells that do not coerce to a number: the empty one and "x"
Uncoercible(i) == Input[i].amount_raw \in {None, Some(StrV(<<"x">>))}
AfterFilter == pc = "dedupe"

\* C4: the filter retains a record if and only if its numeric amount, an
\* absent amount counted as 0, is at least min_amount; so for min_amount > 0
\* every record with an absent or non-coercible amount is dropped, and for
\* min_amount <= 0 every such record is kept.
C4_FilterIffAtLeastMin ==
    AfterFilter =>
        /\ \A i \in Positions : Retained(i) <=> Passes(i)
        /\ \A k \in 1..Len(merged) : merged[k].index + 1 \in Positions
        /\ \A i \in Positions : Uncoercible(i) => (Retained(i) <=> min_amount <= 0)

\* the filter has dropped a non-coercible amount and a too small one and
\* kept a record whose amount is exactly min_amount
C4_Witness ==
    /\ AfterFilter
    /\ min_amount > 0
    /\ \E i, j, k \in Positions :
          /\ Uncoercible(i) /\ Input[i].amount_raw # None /\ ~Retained(i)
          /\ Numeric(j) /\ AmountOrZero(j) < min_amount /\ ~Retained(j)
          /\ Numeric(k) /\ AmountOrZero(k) = min_amount /\ Retained(k)

\* the columns of a row, without the DataFrame index
Columns(r) ==
    <<r.case_number, r.name, r.amount_raw, r.amount, r.address, r.source, r.page>>
SameTable(t1, t2) ==
    /\ Len(t1) = Len(t2)
    /\ \A k \in 1..Len(t1) : Columns(t1[k]) = Columns(t2[k])

\* C9: running the stage again on its own output, with min_amount and
\* dedupe_on_case unchanged, yields the same records in the same order.
C9_ReconcileIdempotent ==
    pc = "rerun" => SameTable(rerun, merged)

----------------------------------------------------------------------------
(* Properties of pdf_to_texts (SpecPages) and of the parse loop (Spec). *)

OcrTexts == [i \in 1..Len(b.pages) |->
                IF b.pages[i].ocr.text = None THEN <<>> ELSE b.pages[i].ocr.text[1]]
LayerTexts == [i \in 1..Len(b.pages) |->
                IF b.pages[i].layer.text = None THEN <<>> ELSE b.pages[i].layer.text[1]]
LayerSucceeds == b.opens /\ \A i \in 1..Len(b.pages) : ~b.pages[i].layer.raises

\* C5: pdf_to_texts returns the output of exactly one path: the OCR texts if
\* use_ocr is requested and OCR is available; otherwise the text-layer texts
\* if that capability is available and succeeds for the whole document;
\* otherwise the single best-effort decode of the raw bytes.
C5_OnePathOnly ==
    pc = "pages_ret" =>
        pages = IF use_ocr /\ OCR_AVAILABLE THEN OcrTexts
                ELSE IF pdfplumber /\ LayerSucceeds THEN LayerTexts
                ELSE <<b.raw>>

\* C6: a failure of a PDF backend while acquiring the page text of one
\* document never ends the pipeline run.
C6_BackendFailureNeverAborts ==
    ~(pc = "aborted" /\ error = "pdf_backend")

\* the configuration does not parse, or is no mapping from field to list
InvalidConfig ==
    \/ ~rules_json.wellformed
    \/ rules_json.value.kind # "dict"
    \/ \E k \in DOMAIN rules_json.value.items : ~rules_json.value.items[k].iterable

\* C7: a configuration that fails to parse or fails schema validation yields
\* the built-in default rules, and the extraction pass never aborts on it.
C7_InvalidConfigFallsBack ==
    (pc # "rules" /\ InvalidConfig) => (rules = DEFAULT_RULES /\ error # "rules")

----------------------------------------------------------------------------
(* Properties of extract_with_rules (SpecExtract). *)

\* the lines of the text in which the pattern matches
MatchLines(pat) == {i \in 1..Len(page_text) : group1(pat, page_text[i]) # None}
\* the trimmed first capture group of the first match of the first pattern,
\* in declared order, that matches anywhere in the text; None when none does
FirstCapture(patterns) ==
    LET js == {j \in 1..Len(patterns) : MatchLines(patterns[j]) # {}}
    IN  IF js = {} THEN None
        ELSE LET j == CHOOSE x \in js : \A y \in js : x <= y
                 i == CHOOSE x \in MatchLines(patterns[j]) :
                          \A y \in MatchLines(patterns[j]) : x <= y
             IN  Some(strip(group1(patterns[j], page_text[i])[1]))
\* the value of a field in the record; the string captured for the field
\* amount is the record's amount_raw
FieldValue(k) ==
    LET col == IF k = "amount" THEN "amount_raw" ELSE k
    IN  IF col \in DOMAIN rec THEN rec[col] ELSE None

\* C8: for each field of the rules, the field's value in the record is the
\* trimmed first capture group of the first match of the first pattern, in
\* declared order, that matches; it is absent if no pattern matches.
C8_FirstPatternWins ==
    pc = "extract_ret" =>
        \A k \in DOMAIN rules.items : FieldValue(k) = FirstCapture(rules.items[k].pats)

FieldNames == {"case_number", "name", "amount", "address"}

\* C10: with rules keyed by the four field names, amount_raw of the record is
\* the string the amount rule captures (absent if none) and amount is that
\* string parsed.
C10_AmountFromAmountRule ==
    (pc = "extract_ret" /\ DOMAIN rules.items = FieldNames) =>
        LET cap == FirstCapture(rules.items["amount"].pats)
        IN  /\ rec["amount_raw"] = cap
            /\ rec["amount"] = IF cap = None THEN None
                               ELSE parse_amount_to_float(Some(StrV(cap[1])))

====
